---------------------------- MODULE Spec2Model ----------------------------
(***************************************************************************)
(* Call generation for invariant testing                                   *)
(* (crates/evm/fuzz/src/strategies/invariants.rs).                         *)
(*                                                                         *)
(* A proptest strategy is a lazy description; the code of its closures     *)
(* runs when the engine draws a value (new_tree).  One draw of             *)
(* generate_call / override_call_strat is modelled as the sequence of      *)
(* steps its closures run, interleaved with the execution harness, which   *)
(* inserts contracts into the shared registry under the registry lock.     *)
(*                                                                         *)
(* Library behaviour the code relies on (proptest):                        *)
(*   Selector::select(c)   = try_select(c).expect(..): panics on empty c   *)
(*   Union::new_weighted   asserts that no option has weight 0             *)
(*   prop_filter           redraws on rejection; TestRunner::reject_local  *)
(*                         fails with "Too many local rejects" once        *)
(*                         local_rejects has reached max_local_rejects     *)
(***************************************************************************)
EXTENDS Integers, Sequences, FiniteSets, TLC

\* ---------------------------------------------------------------- bounds

\* Addresses are 1..MaxAddr; 0 stands for "no address yet" in a local.
MaxAddr == 2
\* The functions of registered contracts are 1..MaxFuncs; 0 stands for "no
\* function yet" in a local.
MaxFuncs == 2
\* A prop::sample::Selector is a random value; here one of 0..SelectorRange-1.
SelectorRange == 4
\* proptest's Config::max_local_rejects (65536 by default), scaled down.
MaxLocalRejects == 2
\* The longest verifier URL tried, in tokens after the scheme.
MaxUrlLen == 3

Addrs == 1..MaxAddr
Funcs == 1..MaxFuncs
Selectors == 0..(SelectorRange - 1)
NoAddr == 0
NoFunc == 0

\* The values of dictionary_weight tried: the ends of [0,100] and inside it.
DictionaryWeights == {0, 1, 50, 100}

\* ------------------------------------------------------------------ state

VARIABLES
    contracts,          \* FuzzRunIdentifiedContracts: address -> [abi, functions]
    lock,               \* holder of the registry mutex: "free", "gen", "harness"
    target,             \* override_call_strat's target: Arc<RwLock<Address>>
    senders,            \* SenderFilters: [targeted: Vec<Address>, excluded]
    dictionary_weight,  \* run configuration
    calldata_fuzz_config, \* CalldataFuzzDictionary: addresses for calldata
    fuzz_state,         \* EvmFuzzState: the addresses of the value dictionary
    local_rejects,      \* TestRunner::local_rejects
    mode,               \* the strategy being drawn
    pc,                 \* the draw's position
    contract,           \* generate_call's contract / override's target_address
    abi,                \* the cloned JsonAbi
    functions,          \* the cloned targeted functions
    func,               \* the function selected
    sender,             \* the sender selected
    origin,             \* the option of the sender strategy that gave sender
    calldata,           \* << >> or the calldata synthesized
    result,             \* "none", "ok", "panic", "rejected"
    reason,             \* the panic's or the rejection's message
    snapshot,           \* addresses of the registry as generate_call's
                        \* latest draw saw it
    fresh,              \* the contract drawn was not there for the draw before
    hpc,                \* the harness's position: "idle", "locked"
    txs,                \* << >> or the Vec<BasicTxDetails> invariant_strat gave
    verifier_url,       \* VerifierArgs::verifier_url: << >> or << string >>
    show_standard_json_input, \* VerifyArgs::show_standard_json_input
    vpc,                \* VerifyArgs::run's position
    provider_called,    \* the provider's verify has been called
    url,                \* << >> or the Url that Url::parse gave
    host_only,          \* << >> or what is_host_only returned
    outcome             \* << >> or the Result that run returned

vars == << contracts, lock, target, senders, dictionary_weight,
           calldata_fuzz_config, fuzz_state, local_rejects, mode, pc,
           contract, abi, functions, func, sender, origin, calldata, result,
           reason, snapshot, fresh, hpc, txs, verifier_url,
           show_standard_json_input, vpc, provider_called, url, host_only,
           outcome >>

shared == << contracts, lock, target, fuzz_state, hpc >>
config == << senders, dictionary_weight, calldata_fuzz_config >>
cli == << verifier_url, show_standard_json_input, vpc, provider_called, url,
         host_only, outcome >>
locals == << contract, abi, functions, func, sender, origin, calldata >>
fuzz == << shared, config, local_rejects, mode, pc, locals, result, reason,
          snapshot, fresh, txs >>

\* -------------------------------------------------------------- helpers

GuardKept(holder) == holder

\* The MutexGuard goes out of scope at the end of the closure or of the
\* statement that took it: the mutex is released.
DropGuard(holder) == "free"

RECURSIVE SortedSeq(_)
\* The elements of a set of integers in increasing order: the iteration order
\* of a BTreeMap's keys.
SortedSeq(S) ==
    IF S = {} THEN << >>
    ELSE LET m == CHOOSE x \in S : \A y \in S : x <= y
         IN  <<m>> \o SortedSeq(S \ {m})

Range(seq) == {seq[i] : i \in 1..Len(seq)}

\* alloy_json_abi::StateMutability's variants.
Mutabilities == << "nonpayable", "view", "pure", "payable" >>

\* The state_mutability of function descriptor f: the descriptors cycle
\* through the variants.
StateMutability(f) == Mutabilities[1 + ((f - 1) % Len(Mutabilities))]

\* Selector::try_select: None (<< >>) on an empty collection, else one item,
\* the selector's value scaled to the collection's length.
TrySelect(selector, seq) ==
    IF Len(seq) = 0 THEN << >>
    ELSE << seq[1 + ((selector * Len(seq)) \div SelectorRange)] >>

\* -------------------------------------------------------- pure functions

\* JsonAbi::functions(): the ABI's functions in name order.
AbiFunctions(json_abi) == SortedSeq(json_abi)

KeysOfAnyAddress(reg) == SortedSeq(Addrs)

\* keys of the registry in address order (BTreeMap::keys / iter).
Keys(reg) == SortedSeq(DOMAIN reg)

\* select_random_contract's filter: contracts whose ABI has a function.
EligibleContracts(reg) ==
    SelectSeq(Keys(reg), LAMBDA a : reg[a].abi # {})

\* select_random_contract reading a registry it kept from the draw before
\* instead of the live one.
SelectRandomContractMemo(selector, reg) ==
    LET kept == IF snapshot = {} THEN DOMAIN reg ELSE snapshot
        old == SelectSeq(Keys(reg), LAMBDA a : a \in kept /\ reg[a].abi # {})
        picked == TrySelect(selector, old)
    IN  IF picked = << >> THEN << >>
        ELSE << [addr      |-> picked[1],
                 abi       |-> reg[picked[1]].abi,
                 functions |-> reg[picked[1]].functions] >>

\* select_random_contract's closure body, under the lock: None when
\* Selector::select panics, else (addr, abi.clone(), functions.clone()).
SelectRandomContract(selector, reg) ==
    LET picked == TrySelect(selector, EligibleContracts(reg))
    IN  IF picked = << >> THEN << >>
        ELSE << [addr      |-> picked[1],
                 abi       |-> reg[picked[1]].abi,
                 functions |-> reg[picked[1]].functions] >>

\* possible_funcs with a filter that forgets the view functions.
PossibleFuncsPureOnly(json_abi) ==
    SelectSeq(AbiFunctions(json_abi), LAMBDA f : StateMutability(f) # "pure")

\* select_random_function's possible_funcs: neither pure nor view.
PossibleFuncs(json_abi) ==
    SelectSeq(AbiFunctions(json_abi),
              LAMBDA f : StateMutability(f) \notin {"pure", "view"})

\* select_random_function falling back to a default function descriptor
\* where the selection has nothing to select from.
SelectRandomFunctionOrDefault(selector, json_abi, targeted_functions) ==
    LET from == IF targeted_functions # << >> THEN targeted_functions
                ELSE PossibleFuncs(json_abi)
    IN  IF from = << >> THEN << NoFunc >> ELSE TrySelect(selector, from)

\* select_random_function: the draw of the strategy it returns.
SelectRandomFunction(selector, json_abi, targeted_functions) ==
    IF targeted_functions # << >>
    THEN TrySelect(selector, targeted_functions)
    ELSE TrySelect(selector, PossibleFuncs(json_abi))

\* Union::new_weighted's assertion on the two weights that
\* select_random_sender passes: TRUE when the union is built.
UnionNewWeighted(weights) ==
    \A i \in 1..Len(weights) : weights[i] # 0

\* The weights select_random_sender gives its two options.
SenderWeights(dw) == << 100 - dw, dw >>

\* A filter that lets every sender through.
SenderAllowedAlways(addr, sf) == TRUE

\* prop_filter's predicate of select_random_sender.
SenderAllowed(addr, sf) == addr \notin sf.excluded

\* Targeted senders with the excluded ones taken out.
TargetedSendersNotExcluded(sf) ==
    SelectSeq(sf.targeted, LAMBDA a : a \notin sf.excluded)

\* The collection select_random_sender selects a targeted sender from.
TargetedSenders(sf) == sf.targeted

\* TestRunner::reject_local, called by prop_filter for a rejected value:
\* whether it gives up, and the count it leaves otherwise.
TooManyLocalRejects(n) == n >= MaxLocalRejects

\* A rejection that is not counted.
NextLocalRejectsUncounted(n) == n

NextLocalRejects(n) == n + 1

\* fuzz_contract_with_calldata's value: the contract it was given, paired
\* with calldata for func; from is the option of the 60/40 mix drawn.
ContractWithCalldata(address, f, from) ==
    [address |-> address, selector |-> f, from |-> from]

\* The sender filters a run can be configured with.
SenderFilterSets ==
    { [targeted |-> SortedSeq(t), excluded |-> e] :
        t \in SUBSET Addrs, e \in SUBSET Addrs }

\* A registry entry the harness can insert: targeted functions are functions
\* of the contract's ABI.
Entries ==
    UNION { { [abi |-> a, functions |-> SortedSeq(t)] : t \in SUBSET a } :
            a \in SUBSET Funcs }

InitLocals ==
    /\ mode = "none"
    /\ pc = "idle"
    /\ contract = NoAddr
    /\ abi = {}
    /\ functions = << >>
    /\ func = NoFunc
    /\ sender = NoAddr
    /\ origin = "none"
    /\ calldata = << >>
    /\ result = "none"
    /\ reason = ""
    /\ txs = << >>

InitShared ==
    /\ contracts = << >>
    /\ lock = "free"
    /\ fuzz_state = {1}
    /\ local_rejects = 0
    /\ snapshot = {}
    /\ fresh = FALSE
    /\ hpc = "idle"
    /\ calldata_fuzz_config = {1}

\* No verification is running.
InitCli ==
    /\ verifier_url = << >>
    /\ show_standard_json_input = FALSE
    /\ vpc = "idle"
    /\ provider_called = FALSE
    /\ url = << >>
    /\ host_only = << >>
    /\ outcome = << >>

\* ---------------------------------------------------------------- harness

\* The harness takes the registry lock.
HarnessLock ==
    /\ hpc = "idle"
    /\ lock = "free"
    /\ DOMAIN contracts # Addrs
    /\ lock' = "harness"
    /\ hpc' = "locked"
    /\ UNCHANGED << contracts, target, fuzz_state, config, cli, txs,
                    local_rejects, mode, pc, locals, result, reason, snapshot,
                    fresh >>

\* The harness inserts a newly deployed contract and releases the lock.
HarnessInsert ==
    /\ hpc = "locked"
    /\ \E a \in Addrs \ DOMAIN contracts, e \in Entries :
          contracts' = [x \in DOMAIN contracts \cup {a} |->
                           IF x = a THEN e ELSE contracts[x]]
    /\ lock' = "free"
    /\ hpc' = "idle"
    /\ UNCHANGED << target, fuzz_state, config, cli, txs, local_rejects, mode,
                    pc, locals, result, reason, snapshot, fresh >>

\* The harness records an observed address in the value dictionary.
HarnessObserve ==
    /\ \E a \in Addrs \ fuzz_state : fuzz_state' = fuzz_state \cup {a}
    /\ UNCHANGED << contracts, lock, target, hpc, config, cli, txs,
                    local_rejects, mode, pc, locals, result, reason, snapshot,
                    fresh >>

\* The harness stores a new address in the shared target cell.
HarnessSetTarget ==
    /\ \E a \in Addrs \ {target} : target' = a
    /\ UNCHANGED << contracts, lock, fuzz_state, hpc, config, cli, txs,
                    local_rejects, mode, pc, locals, result, reason, snapshot,
                    fresh >>

\* ------------------------------------------------------------ the draw

\* A step of the draw fails: a panic unwinds, a rejection is returned.
Fails(kind, why) ==
    /\ result' = kind
    /\ reason' = why
    /\ pc' = "failed"

\* The engine asks generate_call's strategy for a value.
NewTreeGenerate ==
    /\ pc = "idle"
    /\ mode' = "generate"
    /\ pc' = "select_contract"
    /\ UNCHANGED << shared, config, cli, txs, local_rejects, locals, result,
                    reason, snapshot, fresh >>

\* select_random_contract's closure takes the registry lock.
SelectRandomContractLock ==
    /\ pc = "select_contract"
    /\ lock = "free"
    /\ lock' = "gen"
    /\ pc' = "contract_locked"
    /\ UNCHANGED << contracts, target, fuzz_state, hpc, config, cli, txs,
                    local_rejects, mode, locals, result, reason, snapshot,
                    fresh >>

\* select_random_contract's closure: filter, select, clone; the guard is
\* dropped when the closure returns or unwinds.
SelectRandomContractDraw ==
    /\ pc = "contract_locked"
    /\ snapshot' = DOMAIN contracts
    /\ lock' = DropGuard(lock)
    /\ \E selector \in Selectors :
         LET picked == SelectRandomContract(selector, contracts)
         IN  IF picked = << >>
             THEN /\ Fails("panic", "select from empty collection")
                  /\ fresh' = FALSE
                  /\ UNCHANGED << contract, abi, functions >>
             ELSE /\ contract' = picked[1].addr
                  /\ fresh' = (snapshot # {} /\ picked[1].addr \notin snapshot)
                  /\ abi' = picked[1].abi
                  /\ functions' = picked[1].functions
                  /\ pc' = "select_function"
                  /\ UNCHANGED << result, reason >>
    /\ UNCHANGED << contracts, target, fuzz_state, hpc, config, cli, txs,
                    local_rejects, mode, func, sender, origin, calldata >>

\* select_random_function(abi, functions) and the draw of its strategy.
SelectRandomFunctionDraw ==
    /\ pc = "select_function"
    /\ \E selector \in Selectors :
         LET picked == SelectRandomFunction(selector, abi, functions)
         IN  IF picked = << >>
             THEN /\ Fails("panic", "select from empty collection")
                  /\ func' = func
             ELSE /\ func' = picked[1]
                  /\ pc' = IF mode = "generate" THEN "select_sender"
                           ELSE IF mode = "function" THEN "done"
                           ELSE "calldata"
                  /\ result' = IF mode = "function" THEN "ok" ELSE result
                  /\ reason' = reason
    /\ UNCHANGED << shared, config, cli, txs, local_rejects, mode, contract,
                    abi, functions, sender, origin, calldata, snapshot,
                    fresh >>

\* select_random_sender builds its strategy: the weighted union is built
\* first, whether or not targeted is empty.
SelectRandomSender ==
    /\ pc = "select_sender"
    /\ IF UnionNewWeighted(SenderWeights(dictionary_weight))
       THEN /\ pc' = "draw_sender"
            /\ UNCHANGED << result, reason >>
       ELSE Fails("panic", "Union option has a weight of 0")
    /\ UNCHANGED << shared, config, cli, txs, local_rejects, mode, locals,
                    snapshot, fresh >>

\* The sender drawn goes on to calldata synthesis (generate_call).
SenderDrawn(addr, from) ==
    /\ sender' = addr
    /\ origin' = from
    /\ pc' = IF mode = "sender" THEN "done" ELSE "calldata"
    /\ result' = IF mode = "sender" THEN "ok" ELSE result
    /\ reason' = reason
    /\ local_rejects' = local_rejects

\* The draw of select_random_sender's strategy with targeted senders.
DrawTargetedSender ==
    /\ pc = "draw_sender"
    /\ senders.targeted # << >>
    /\ \E selector \in Selectors :
         LET picked == TrySelect(selector, TargetedSenders(senders))
         IN  IF picked = << >>
             THEN /\ Fails("panic", "select from empty collection")
                  /\ UNCHANGED << sender, origin, local_rejects >>
             ELSE SenderDrawn(picked[1], "targeted")
    /\ UNCHANGED << shared, config, cli, txs, mode, contract, abi, functions,
                    func, calldata, snapshot, fresh >>

\* One round of prop_filter over the weighted union: a candidate is drawn
\* from an option of positive weight; an excluded one is rejected locally.
DrawFuzzSender ==
    /\ pc = "draw_sender"
    /\ senders.targeted = << >>
    /\ \E option \in {1, 2} :
         /\ SenderWeights(dictionary_weight)[option] > 0
         /\ \E addr \in (IF option = 1 THEN Addrs ELSE fuzz_state) :
              IF SenderAllowed(addr, senders)
              THEN SenderDrawn(addr, IF option = 1 THEN "random"
                                     ELSE "dictionary")
              ELSE IF TooManyLocalRejects(local_rejects)
              THEN /\ Fails("rejected", "Too many local rejects")
                   /\ UNCHANGED << sender, origin, local_rejects >>
              ELSE /\ local_rejects' = NextLocalRejects(local_rejects)
                   /\ UNCHANGED << sender, origin, pc, result, reason >>
    /\ UNCHANGED << shared, config, cli, txs, mode, contract, abi, functions,
                    func, calldata, snapshot, fresh >>

\* The (sender, (address, calldata)) that generate_call's last closure
\* returns.
BasicTxDetails(from, call) ==
    [sender |-> from, target |-> call.address, selector |-> call.selector]

VecOfTwo(x) == << x, x >>

\* vec![x]: the vector holding x alone.
VecOf(x) == << x >>

FuzzContractWithCalldataRecording ==
    /\ pc = "calldata"
    /\ \E from \in {"config", "state"} :
         LET call == ContractWithCalldata(contract, func, from)
         IN  /\ calldata' = << call >>
             /\ txs' = IF mode = "generate"
                       THEN VecOf(BasicTxDetails(sender, call))
                       ELSE << >>
    /\ fuzz_state' = fuzz_state \cup {contract}
    /\ result' = "ok"
    /\ pc' = "done"
    /\ UNCHANGED << contracts, lock, target, hpc, config, cli, local_rejects,
                    mode, contract, abi, functions, func, sender, origin,
                    reason, snapshot, fresh >>

\* fuzz_contract_with_calldata: calldata for func from the calldata
\* dictionary (60) or from the fuzz state (40), paired with the contract.
\* Drawn for invariant_strat, generate_call's value is mapped into a vector.
FuzzContractWithCalldata ==
    /\ pc = "calldata"
    /\ \E from \in {"config", "state"} :
         LET call == ContractWithCalldata(contract, func, from)
         IN  /\ calldata' = << call >>
             /\ txs' = IF mode = "generate"
                       THEN VecOf(BasicTxDetails(sender, call))
                       ELSE << >>
    /\ result' = "ok"
    /\ pc' = "done"
    /\ UNCHANGED << shared, config, cli, local_rejects, mode, contract, abi,
                    functions, func, sender, origin, reason, snapshot, fresh >>

\* The engine takes the draw's outcome; the strategy can be drawn again.
Complete ==
    /\ pc \in {"done", "failed"}
    /\ mode' = "none"
    /\ pc' = "idle"
    /\ contract' = NoAddr
    /\ abi' = {}
    /\ functions' = << >>
    /\ func' = NoFunc
    /\ sender' = NoAddr
    /\ origin' = "none"
    /\ calldata' = << >>
    /\ result' = "none"
    /\ reason' = ""
    /\ fresh' = FALSE
    /\ txs' = << >>
    /\ snapshot' = IF mode = "generate" THEN snapshot ELSE {}
    /\ UNCHANGED << shared, config, cli, local_rejects >>

\* The value the draw produced.
Call ==
    IF mode = "generate"
    THEN [sender   |-> sender,
          target   |-> calldata[1].address,
          selector |-> calldata[1].selector]
    ELSE [target   |-> calldata[1].address,
          selector |-> calldata[1].selector]

\* ------------------------------------------------ invariant_strat's run

Init ==
    /\ InitShared
    /\ InitLocals
    /\ InitCli
    /\ target = 1
    /\ senders = [targeted |-> << >>, excluded |-> {}]
    /\ dictionary_weight = 50

Next ==
    \/ HarnessLock
    \/ HarnessInsert
    \/ NewTreeGenerate
    \/ SelectRandomContractLock
    \/ SelectRandomContractDraw
    \/ SelectRandomFunctionDraw
    \/ SelectRandomSender
    \/ DrawFuzzSender
    \/ FuzzContractWithCalldata
    \/ Complete

Spec == Init /\ [][Next]_vars

\* --------------------------------------------- override_call_strat's run

\* The engine asks override_call_strat's strategy for a value.
NewTreeOverride ==
    /\ pc = "idle"
    /\ mode' = "override"
    /\ pc' = "pick_target"
    /\ snapshot' = {}
    /\ UNCHANGED << shared, config, cli, txs, local_rejects, locals, result,
                    reason, fresh >>

ReadTargetAsBuilt(cell) == CHOOSE a \in Addrs : \A b \in Addrs : a <= b

\* *target.read(): the address the cell holds now.
ReadTarget(cell) == cell

\* The union's option of weight 80: the target cell is read.
OverrideTarget ==
    /\ pc = "pick_target"
    /\ contract' = ReadTarget(target)
    /\ origin' = "target"
    /\ pc' = "lookup"
    /\ UNCHANGED << shared, config, cli, txs, local_rejects, mode, abi,
                    functions, func, sender, calldata, result, reason,
                    snapshot, fresh >>

\* The union's option of weight 20 takes the registry lock.
OverrideRandomLock ==
    /\ pc = "pick_target"
    /\ lock = "free"
    /\ lock' = "gen"
    /\ pc' = "random_locked"
    /\ UNCHANGED << contracts, target, fuzz_state, hpc, config, cli, txs,
                    local_rejects, mode, locals, result, reason, snapshot,
                    fresh >>

\* The union's option of weight 20: a key of the registry is selected; the
\* guard is a temporary of the statement.
OverrideRandomContract ==
    /\ pc = "random_locked"
    /\ lock' = DropGuard(lock)
    /\ \E selector \in Selectors :
         LET picked == TrySelect(selector, Keys(contracts))
         IN  IF picked = << >>
             THEN /\ Fails("panic", "select from empty collection")
                  /\ UNCHANGED << contract, origin >>
             ELSE /\ contract' = picked[1]
                  /\ origin' = "random_contract"
                  /\ pc' = "lookup"
                  /\ UNCHANGED << result, reason >>
    /\ UNCHANGED << contracts, target, fuzz_state, hpc, config, cli, txs,
                    local_rejects, mode, abi, functions, func, sender,
                    calldata, snapshot, fresh >>

\* prop_flat_map's closure takes the registry lock.
OverrideLookupLock ==
    /\ pc = "lookup"
    /\ lock = "free"
    /\ lock' = "gen"
    /\ pc' = "lookup_locked"
    /\ UNCHANGED << contracts, target, fuzz_state, hpc, config, cli, txs,
                    local_rejects, mode, locals, result, reason, snapshot,
                    fresh >>

\* contracts.lock().get(&target_address).unwrap().clone()
OverrideLookup ==
    /\ pc = "lookup_locked"
    /\ lock' = DropGuard(lock)
    /\ IF contract \in DOMAIN contracts
       THEN /\ abi' = contracts[contract].abi
            /\ functions' = contracts[contract].functions
            /\ pc' = "select_function"
            /\ UNCHANGED << result, reason >>
       ELSE /\ Fails("panic", "called Option::unwrap() on a None value")
            /\ UNCHANGED << abi, functions >>
    /\ UNCHANGED << contracts, target, fuzz_state, hpc, config, cli, txs,
                    local_rejects, mode, contract, func, sender, origin,
                    calldata, snapshot, fresh >>

InitOverride ==
    /\ InitShared
    /\ InitLocals
    /\ InitCli
    /\ target = 1
    /\ senders = [targeted |-> << >>, excluded |-> {}]
    /\ dictionary_weight = 50

NextOverride ==
    \/ HarnessLock
    \/ HarnessInsert
    \/ HarnessSetTarget
    \/ NewTreeOverride
    \/ OverrideTarget
    \/ OverrideRandomLock
    \/ OverrideRandomContract
    \/ OverrideLookupLock
    \/ OverrideLookup
    \/ SelectRandomFunctionDraw
    \/ FuzzContractWithCalldata
    \/ Complete

SpecOverride == InitOverride /\ [][NextOverride]_vars

\* ------------------------------ both strategies, drawn while the harness
\* ------------------------------ inserts

NextDraws ==
    \/ HarnessLock
    \/ HarnessInsert
    \/ NewTreeGenerate
    \/ SelectRandomContractLock
    \/ SelectRandomContractDraw
    \/ SelectRandomSender
    \/ DrawFuzzSender
    \/ NewTreeOverride
    \/ OverrideTarget
    \/ OverrideRandomLock
    \/ OverrideRandomContract
    \/ OverrideLookupLock
    \/ OverrideLookup
    \/ SelectRandomFunctionDraw
    \/ FuzzContractWithCalldata
    \/ Complete

SpecDraws == Init /\ [][NextDraws]_vars

\* ------------------------------------------- select_random_sender's run

\* generate_call's closure calls select_random_sender.
NewTreeSender ==
    /\ pc = "idle"
    /\ mode' = "sender"
    /\ pc' = "select_sender"
    /\ UNCHANGED << shared, config, cli, txs, local_rejects, locals, result,
                    reason, snapshot, fresh >>

InitSender ==
    /\ InitShared
    /\ InitLocals
    /\ InitCli
    /\ target = 1
    /\ senders \in SenderFilterSets
    /\ dictionary_weight \in DictionaryWeights

NextSender ==
    \/ HarnessObserve
    \/ NewTreeSender
    \/ SelectRandomSender
    \/ DrawTargetedSender
    \/ DrawFuzzSender
    \/ Complete

SpecSender == InitSender /\ [][NextSender]_vars

\* The engine goes on drawing: a draw that has started takes its next step.
FairSpecSender ==
    /\ SpecSender
    /\ WF_vars(SelectRandomSender)
    /\ WF_vars(DrawTargetedSender)
    /\ WF_vars(DrawFuzzSender)

\* ----------------------------------------- select_random_function's run

\* The ABIs select_random_function is tried on: one function of each
\* state mutability.
AbiUniverse == 1..Len(Mutabilities)

\* select_random_function is called with an ABI and targeted functions.
NewTreeFunction ==
    /\ pc = "idle"
    /\ mode' = "function"
    /\ pc' = "select_function"
    /\ \E a \in SUBSET AbiUniverse, t \in SUBSET AbiUniverse :
         /\ abi' = a
         /\ functions' = SortedSeq(t)
    /\ UNCHANGED << shared, config, cli, txs, local_rejects, contract, func,
                    sender, origin, calldata, result, reason, snapshot,
                    fresh >>

NextFunction ==
    \/ NewTreeFunction
    \/ SelectRandomFunctionDraw
    \/ Complete

SpecFunction == Init /\ [][NextFunction]_vars

\* ------------------------------------------------------ VerifyArgs::run

\* The strings tried as verifier_url: a scheme, or none, and up to MaxUrlLen
\* tokens after it.
Schemes == {"", "https://", "foo://"}
UrlTokens == {"blockscout.net", "/", "api"}

SeqsUpTo(S, n) == UNION {[1..k -> S] : k \in 0..n}

VerifierUrls == [scheme : Schemes, rest : SeqsUpTo(UrlTokens, MaxUrlLen)]

\* The number of "/" that seq begins with.
LeadingSlashes(seq) ==
    CHOOSE n \in 0..Len(seq) :
        /\ \A i \in 1..n : seq[i] = "/"
        /\ n = Len(seq) \/ seq[n + 1] # "/"

\* The position of the first "/" of seq, Len(seq) + 1 if it has none.
FirstSlash(seq) ==
    CHOOSE k \in 1..(Len(seq) + 1) :
        /\ \A i \in 1..(k - 1) : seq[i] # "/"
        /\ k = Len(seq) + 1 \/ seq[k] = "/"

\* Url::parse. Without a scheme the string is a relative URL, and there is
\* no base. After a special scheme (https) the slashes before the host are
\* skipped, the host must not be empty, and an empty path becomes "/". After
\* another scheme the host may be empty and the path stays as written.
UrlParse(string) ==
    IF string.scheme = ""
    THEN [ok |-> FALSE, err |-> "relative URL without a base"]
    ELSE IF string.scheme = "https://"
    THEN LET rest == SubSeq(string.rest, LeadingSlashes(string.rest) + 1,
                            Len(string.rest))
             k    == FirstSlash(rest)
             path == SubSeq(rest, k, Len(rest))
         IN  IF k = 1
             THEN [ok |-> FALSE, err |-> "empty host"]
             ELSE [ok   |-> TRUE,
                   host |-> SubSeq(rest, 1, k - 1),
                   path |-> IF path = << >> THEN << "/" >> ELSE path]
    ELSE LET k == FirstSlash(string.rest)
         IN  [ok   |-> TRUE,
              host |-> SubSeq(string.rest, 1, k - 1),
              path |-> SubSeq(string.rest, k, Len(string.rest))]

IsHostOnlyRoot(parsed) == parsed.path = << "/" >>

\* is_host_only: matches!(url.path(), "/" | "")
IsHostOnly(parsed) == parsed.path = << "/" >> \/ parsed.path = << >>

\* The Result of run: Ok(()), or Err with the report's chain of messages,
\* the outermost first.
Ok == [ok |-> TRUE, chain |-> << >>]
Err(msg) == [ok |-> FALSE, chain |-> << msg >>]

\* eyre's Report::wrap_err: msg is put in front of the chain.
WrapErr(err, msg) == [ok |-> FALSE, chain |-> << msg >> \o err.chain]

MapErrHintForAnyUrl(err, given) ==
    IF given # << >>
    THEN WrapErr(err, "Provided URL is host only")
    ELSE err

\* The closure given to map_err: the error of the provider's verify, wrapped
\* when the verifier URL given does not parse or is host only.
MapErr(err, given) ==
    IF given # << >>
    THEN LET parsed == UrlParse(given[1])
         IN  IF parsed.ok
             THEN IF IsHostOnly(parsed)
                  THEN WrapErr(err, "Provided URL is host only")
                  ELSE err
             ELSE WrapErr(err, "Invalid URL provided")
    ELSE err

\* run returns.
Returns(res) ==
    /\ outcome' = << res >>
    /\ vpc' = "returned"

\* The configuration is loaded and the etherscan key looked up.
LoadConfig ==
    /\ vpc = "start"
    /\ \E found \in BOOLEAN :
         IF found
         THEN /\ vpc' = IF show_standard_json_input THEN "show" ELSE "client"
              /\ UNCHANGED outcome
         ELSE Returns(Err("etherscan config"))
    /\ UNCHANGED << fuzz, verifier_url, show_standard_json_input,
                    provider_called, url, host_only >>

\* --show-standard-json-input: the request is built and printed.
ShowStandardJsonInput ==
    /\ vpc = "show"
    /\ \E built \in BOOLEAN :
         Returns(IF built THEN Ok ELSE Err("create_verify_request"))
    /\ UNCHANGED << fuzz, verifier_url, show_standard_json_input,
                    provider_called, url, host_only >>

\* The provider's client is made from the key.
Client ==
    /\ vpc = "client"
    /\ \E made \in BOOLEAN :
         IF made
         THEN /\ vpc' = "verify"
              /\ UNCHANGED outcome
         ELSE Returns(Err("client"))
    /\ UNCHANGED << fuzz, verifier_url, show_standard_json_input,
                    provider_called, url, host_only >>

\* The provider's verify runs: it succeeds, or fails with its error.
ProviderVerify ==
    /\ vpc = "verify"
    /\ provider_called' = TRUE
    /\ \E verified \in BOOLEAN :
         IF verified
         THEN Returns(Ok)
         ELSE /\ outcome' = << Err("verify failed") >>
              /\ vpc' = "map_err"
    /\ UNCHANGED << fuzz, verifier_url, show_standard_json_input, url,
                    host_only >>

\* map_err's closure runs on the provider's error.
VerifyMapErr ==
    /\ vpc = "map_err"
    /\ LET parsed == IF verifier_url # << >>
                     THEN << UrlParse(verifier_url[1]) >>
                     ELSE << >>
       IN  /\ url' = parsed
           /\ host_only' = IF parsed # << >> /\ parsed[1].ok
                           THEN << IsHostOnly(parsed[1]) >>
                           ELSE << >>
    /\ Returns(MapErr(outcome[1], verifier_url))
    /\ UNCHANGED << fuzz, verifier_url, show_standard_json_input,
                    provider_called >>

InitVerify ==
    /\ InitShared
    /\ InitLocals
    /\ target = 1
    /\ senders = [targeted |-> << >>, excluded |-> {}]
    /\ dictionary_weight = 50
    /\ verifier_url \in {<< >>} \cup {<< u >> : u \in VerifierUrls}
    /\ show_standard_json_input \in BOOLEAN
    /\ vpc = "start"
    /\ provider_called = FALSE
    /\ url = << >>
    /\ host_only = << >>
    /\ outcome = << >>

NextVerify ==
    \/ LoadConfig
    \/ ShowStandardJsonInput
    \/ Client
    \/ ProviderVerify
    \/ VerifyMapErr

SpecVerify == InitVerify /\ [][NextVerify]_vars

\* ================================================================ claims

\* The addresses of reg whose ABI has at least one function (the eligibility
\* of contract selection).
EligibleAddrs(reg) == {a \in DOMAIN reg : Cardinality(reg[a].abi) >= 1}

\* The functions of an ABI that are neither pure nor view.
MutatingFunctions(a) == {f \in a : StateMutability(f) \notin {"pure", "view"}}

\* The functions a draw may select for a registry entry: its targeted
\* functions if it has any, else the mutating functions of its ABI.
SelectableFunctions(e) ==
    IF e.functions # << >> THEN Range(e.functions) ELSE MutatingFunctions(e.abi)

\* generate_call's draw has passed contract selection.
PastContractSelection ==
    /\ mode = "generate"
    /\ pc \in {"select_function", "select_sender", "draw_sender", "calldata",
               "done", "failed"}

\* C1: whenever the registry the draw read holds a contract with a function
\* that is neither pure nor view, generate_call's draw does not fail, and the
\* call it produces targets an address registered at draw time with a
\* selectable function of that contract.
C1_GenerateCallProducesCall ==
    (PastContractSelection
        /\ \E a \in snapshot : MutatingFunctions(contracts[a].abi) # {})
    => /\ result \notin {"panic", "rejected"}
       /\ result = "ok" =>
             /\ Call.target \in snapshot
             /\ Call.selector \in SelectableFunctions(contracts[Call.target])

\* C2: with targeted senders, every sender drawn is a targeted one, whatever
\* dictionary_weight is; the excluded set is not consulted: no draw is
\* rejected, and every targeted sender, excluded or not, can be drawn.
C2_TargetedSendersOnly ==
    (mode = "sender" /\ senders.targeted # << >>)
    => /\ pc = "draw_sender" =>
             {TrySelect(s, TargetedSenders(senders)) : s \in Selectors}
                = {<<a>> : a \in Range(senders.targeted)}
       /\ result = "ok" =>
             /\ sender \in Range(senders.targeted)
             /\ origin = "targeted"
       /\ result # "rejected"
       /\ local_rejects = 0

\* C2's case: a sender that is both targeted and excluded has been drawn.
C2_Witness ==
    /\ mode = "sender"
    /\ result = "ok"
    /\ origin = "targeted"
    /\ sender \in senders.excluded

\* C3: without targeted senders, no sender drawn is an excluded one, whatever
\* the value dictionary holds.
C3_NoExcludedSender ==
    (mode = "sender" /\ senders.targeted = << >> /\ sender # NoAddr)
    => sender \notin senders.excluded

\* C3's case: the dictionary holds an excluded address, a candidate has been
\* rejected, and a sender has been drawn from the dictionary.
C3_Witness ==
    /\ mode = "sender"
    /\ senders.targeted = << >>
    /\ result = "ok"
    /\ origin = "dictionary"
    /\ fuzz_state \cap senders.excluded # {}
    /\ local_rejects > 0

\* C4: a contract selection that finds no contract with a function ends the
\* draw with an error returned to the caller, the registry lock released.
C4_NoEligibleContractIsError ==
    (mode = "generate" /\ pc = "failed" /\ contract = NoAddr
        /\ \A a \in snapshot : contracts[a].abi = {})
    => /\ result = "rejected"
       /\ lock # "gen"

\* C5: a function selection on a contract without targeted functions whose
\* ABI holds only pure and view functions ends the draw with an error
\* returned to the caller.
C5_NoEligibleFunctionIsError ==
    (mode = "generate" /\ pc = "failed" /\ contract # NoAddr /\ func = NoFunc
        /\ functions = << >> /\ abi # {} /\ MutatingFunctions(abi) = {})
    => result = "rejected"

\* C6: select_random_function draws exactly the targeted functions when there
\* are any, whatever their mutability, and else exactly the functions of the
\* ABI that are neither pure nor view.
C6_FunctionSelection ==
    mode = "function"
    => /\ pc = "select_function" =>
             {SelectRandomFunction(s, abi, functions) : s \in Selectors}
                = IF functions # << >>
                  THEN {<<f>> : f \in Range(functions)}
                  ELSE IF MutatingFunctions(abi) = {} THEN {<< >>}
                  ELSE {<<f>> : f \in MutatingFunctions(abi)}
       /\ result = "ok" =>
             IF functions # << >> THEN func \in Range(functions)
             ELSE func \in MutatingFunctions(abi)

\* C6's case: a targeted function that is pure or view has been selected.
C6_Witness ==
    /\ mode = "function"
    /\ result = "ok"
    /\ functions # << >>
    /\ StateMutability(func) \in {"pure", "view"}
    /\ MutatingFunctions(abi) # {}

\* A call of override_call_strat: its address is the target chosen; a target
\* that the supplied address did not give is a registered contract whose ABI
\* has a function; the function is a selectable one of the target's entry.
OverrideCallOfTarget ==
    (mode = "override" /\ result = "ok")
    => /\ Call.target = contract
       /\ Call.target \in DOMAIN contracts
       /\ origin = "target" \/ Call.target \in EligibleAddrs(contracts)
       /\ Call.selector \in SelectableFunctions(contracts[Call.target])

\* C7: every call of override_call_strat targets the supplied address, read
\* when the target is drawn, or an eligible contract of the registry, with a
\* function selected from the target's entry, and returns the target.
C7_OverrideTargets ==
    /\ []OverrideCallOfTarget
    /\ [][(pc = "pick_target" /\ pc' = "lookup" /\ origin' = "target")
            => contract' = target]_vars

\* C7's case: a call on a contract of the registry other than the supplied
\* address has been produced.
C7_Witness ==
    /\ mode = "override"
    /\ result = "ok"
    /\ origin = "random_contract"
    /\ Call.target # target

\* C8: the targets a draw of generate_call can give are exactly the eligible
\* contracts of the registry at the time of the draw, and the contract drawn
\* is one of them.
C8_NoMemoization ==
    /\ pc = "contract_locked" =>
          {c[1].addr : c \in {SelectRandomContract(s, contracts) :
                                 s \in Selectors} \ {<< >>}}
             = EligibleAddrs(contracts)
    /\ (PastContractSelection /\ contract # NoAddr) =>
          contract \in snapshot \cap EligibleAddrs(contracts)

\* C8's case: a draw has given a contract inserted after the draw before it.
C8_Witness ==
    /\ mode = "generate"
    /\ pc = "select_function"
    /\ fresh

\* Every address a sender draw can produce is excluded.
AllSendersExcluded ==
    /\ senders.targeted = << >>
    /\ senders.excluded = Addrs

\* C9: when every address is excluded, the sender draw ends, after boundedly
\* many rejections, with the rejection error and without a sender.
C9_ExclusionTerminates ==
    (mode = "sender" /\ pc = "draw_sender" /\ AllSendersExcluded)
    ~> (pc = "failed" /\ result = "rejected"
           /\ reason = "Too many local rejects" /\ sender = NoAddr
           /\ local_rejects <= MaxLocalRejects)

\* C9's case: every address is excluded and the draw has given up at the
\* bound.
C9_Witness ==
    /\ mode = "sender"
    /\ AllSendersExcluded
    /\ pc = "failed"
    /\ result = "rejected"
    /\ local_rejects = MaxLocalRejects

\* C10: for every dictionary_weight in 0..100 the sender strategy is built:
\* the first weight is not negative, the build does not fail, and with
\* dictionary_weight 0 no sender comes from the dictionary.
C10_WeightsAlwaysBuild ==
    (mode = "sender" /\ dictionary_weight \in 0..100
        /\ pc \in {"draw_sender", "done", "failed"})
    => /\ SenderWeights(dictionary_weight)[1] >= 0
       /\ result # "panic"
       /\ (dictionary_weight = 0 /\ result = "ok") => origin # "dictionary"

\* The steps of a draw that follow its reads of the registry.
LaterSteps == {"select_function", "select_sender", "draw_sender", "calldata"}

\* The steps of a draw in which it holds the registry lock.
LockedSteps == {"contract_locked", "random_locked", "lookup_locked"}

\* C11: a draw holds the registry lock only in the steps that read the
\* registry and clone the entry of the contract chosen; in function selection,
\* sender selection and calldata synthesis it does not hold it, and a harness
\* that has an address to insert can take the lock.
C11_LockOnlyWhileReading ==
    /\ lock = "gen" => pc \in LockedSteps
    /\ pc \in LaterSteps => lock # "gen"
    /\ (pc \in LaterSteps /\ hpc = "idle" /\ lock = "free"
          /\ DOMAIN contracts # Addrs) => ENABLED HarnessLock

\* The harness holds the lock while a draw selects a function.
C11_Witness ==
    /\ pc \in LaterSteps
    /\ lock = "harness"
    /\ hpc = "locked"

\* A step of a draw: every step of a draw moves its position or counts a
\* local rejection.
DrawStep == pc' # pc \/ local_rejects' # local_rejects

\* C12: no step of a draw of generate_call or of override_call_strat, whether
\* the draw succeeds or fails, changes the contract registry, the value
\* dictionary, the calldata dictionary or the sender filters; the registry
\* changes only in the harness's insertion.
C12_DrawsLeaveStoresUnchanged ==
    [][/\ DrawStep => UNCHANGED << contracts, fuzz_state,
                                    calldata_fuzz_config, senders >>
       /\ contracts' # contracts => (hpc = "locked" /\ hpc' = "idle")]_vars

\* A draw has produced a call from a registry the harness filled.
C12_Witness ==
    /\ pc = "done"
    /\ result = "ok"
    /\ contract \in DOMAIN contracts
    /\ fuzz_state = {1}
    /\ calldata_fuzz_config = {1}

\* C16: the lookup of the target chosen finds its entry whenever the random
\* option chose it, under every interleaving of the harness's insertions
\* between the choice and the lookup; the lookup fails only for a supplied
\* address that is not registered, and, the registry only growing, was not
\* registered when it was drawn.
C16_LookupFindsEntry ==
    /\ []((mode = "override" /\ origin = "random_contract"
              /\ pc \in {"lookup", "lookup_locked"})
           => contract \in DOMAIN contracts)
    /\ [][(pc = "lookup_locked" /\ pc' = "failed")
            => (origin = "target" /\ contract \notin DOMAIN contracts)]_vars
    /\ [][\A a \in DOMAIN contracts :
             a \in DOMAIN contracts' /\ contracts'[a] = contracts[a]]_vars

\* The harness is inserting between the random option's choice and the
\* lookup of the contract chosen.
C16_Witness ==
    /\ mode = "override"
    /\ origin = "random_contract"
    /\ pc = "lookup"
    /\ hpc = "locked"
    /\ contract \in DOMAIN contracts

\* C17: the supplied target is read from the shared cell when it is drawn,
\* on every draw: a draw of the supplied option made after the cell was
\* changed gives the address the cell holds then, not the one it held before.
C17_TargetReadAtDraw ==
    [][(pc = "pick_target" /\ pc' = "lookup" /\ origin' = "target")
         => (contract' = target' /\ target' = target)]_vars

\* The cell, which held address 1 when the strategy was built, has been
\* changed, and a draw of the supplied option has read the new address.
C17_Witness ==
    /\ mode = "override"
    /\ origin = "target"
    /\ pc = "lookup"
    /\ target = MaxAddr
    /\ contract = target

\* C18: the value of invariant_strat is a sequence of exactly one call, the
\* call that generate_call produced in the same draw from the same registry,
\* dictionaries and filters; a draw that fails yields no sequence.
C18_OneCallSequence ==
    /\ (mode = "generate" /\ result = "ok")
       => /\ Len(txs) = 1
          /\ txs[1] = Call
          /\ txs[1].target = contract
          /\ txs[1].selector = func
          /\ txs[1].sender = sender
    /\ result # "ok" => txs = << >>

\* invariant_strat has yielded its sequence.
C18_Witness ==
    /\ mode = "generate"
    /\ pc = "done"
    /\ result = "ok"
    /\ txs # << >>
    /\ txs[1].target \in DOMAIN contracts

\* C13: is_host_only is true exactly of the URLs whose path is "/" or empty,
\* and false of every URL with a longer path, /api among them.
C13_HostOnly ==
    host_only # << >> =>
        /\ host_only[1] <=> Len(url[1].path) = 0 \/ url[1].path = << "/" >>
        /\ Len(url[1].path) >= 2 => ~host_only[1]
        /\ url[1].path = << "/", "api" >> => ~host_only[1]

\* is_host_only has been true of a URL with an empty path.
C13_Witness ==
    /\ host_only = << TRUE >>
    /\ url[1].path = << >>

\* The verifier URL given does not parse.
Unparsable == verifier_url # << >> /\ ~UrlParse(verifier_url[1]).ok

\* run has returned the invalid-URL error.
InvalidUrlReported ==
    /\ outcome # << >>
    /\ \E i \in 1..Len(outcome[1].chain) :
         outcome[1].chain[i] = "Invalid URL provided"

\* C14: a verifier URL that does not parse is rejected before the provider's
\* verify is attempted: verify is not reached with such a URL, and the
\* invalid-URL error is not reported by a run that has called verify.
C14_InvalidUrlRejectedAtSetup ==
    /\ (vpc = "verify" \/ provider_called) => ~Unparsable
    /\ InvalidUrlReported => ~provider_called

\* The errors the provider's verify fails with.
ProviderErrors == {"verify failed"}

\* C15: a run whose verify step failed returns the provider's error: under
\* the invalid-URL message when the verifier URL given does not parse, under
\* the /api hint when it parses with the path "/" or none, and as it is
\* when no verifier URL was given or the URL has a longer path; a run whose
\* verify step succeeded returns Ok, whatever the verifier URL.
C15_VerifyErrorWrapping ==
    (vpc = "returned" /\ provider_called) =>
        LET res == outcome[1]
            n   == Len(res.chain)
        IN  IF res.ok
            THEN n = 0
            ELSE /\ n \in {1, 2}
                 /\ res.chain[n] \in ProviderErrors
                 /\ Unparsable =>
                       (n = 2 /\ res.chain[1] = "Invalid URL provided")
                 /\ (verifier_url # << >> /\ ~Unparsable) =>
                       IF Len(UrlParse(verifier_url[1]).path) = 0
                          \/ UrlParse(verifier_url[1]).path = << "/" >>
                       THEN n = 2 /\ res.chain[1] = "Provided URL is host only"
                       ELSE n = 1
                 /\ verifier_url = << >> => n = 1

\* A failed verify with a host-only verifier URL has been reported under the
\* hint.
C15_Witness ==
    /\ vpc = "returned"
    /\ provider_called
    /\ host_only = << TRUE >>
    /\ outcome[1].chain = << "Provided URL is host only", "verify failed" >>

====
